---- MODULE Spec2Model ----
(***************************************************************************)
(* Debit settlement dispatch of function_app.py and database.py:           *)
(* the Service Bus queue handler, its internal call of the /debit          *)
(* endpoint, the endpoint's guard / gateway call / event insert, and the   *)
(* error classifier both layers share.                                     *)
(*                                                                         *)
(* Text is modelled as a sequence of one-character strings, so that the    *)
(* classifier's keyword search is a real substring search over the real    *)
(* messages the code builds.                                               *)
(***************************************************************************)
EXTENDS Integers, Sequences, FiniteSets, TLC

(***************************************************************************)
(* Bounds of the model.                                                    *)
(***************************************************************************)
\* Number of trigger handlings (queue deliveries plus direct HTTP calls).
MaxRuns == 2

(***************************************************************************)
(* Text: str.lower(), the "in" substring test, str(int).                   *)
(***************************************************************************)
\* str.lower() on the letters that occur in the messages of this program.
UpperToLower ==
    [c \in {"A","B","C","D","E","F","G","H","I","J","K","L","M","N","O","P","Q","R","S","T",
            "U","V","W","X","Y","Z"} |->
        CASE c = "A" -> "a" [] c = "B" -> "b" [] c = "C" -> "c" [] c = "D" -> "d"
          [] c = "E" -> "e" [] c = "F" -> "f" [] c = "G" -> "g" [] c = "H" -> "h"
          [] c = "I" -> "i" [] c = "J" -> "j" [] c = "K" -> "k" [] c = "L" -> "l"
          [] c = "M" -> "m" [] c = "N" -> "n" [] c = "O" -> "o" [] c = "P" -> "p"
          [] c = "Q" -> "q" [] c = "R" -> "r" [] c = "S" -> "s" [] c = "T" -> "t"
          [] c = "U" -> "u" [] c = "V" -> "v" [] c = "W" -> "w" [] c = "X" -> "x"
          [] c = "Y" -> "y" [] c = "Z" -> "z"]

\* A variant of str.lower() below that leaves the letters as they are.
lower_unchanged(s) == s

lower(s) ==
    [i \in 1..Len(s) |-> IF s[i] \in DOMAIN UpperToLower THEN UpperToLower[s[i]] ELSE s[i]]

\* Python's "keyword in text" on strings: keyword occurs as a contiguous slice.
Contains(text, keyword) ==
    \E i \in 1..(Len(text) - Len(keyword) + 1) :
        \A j \in 1..Len(keyword) : text[i + j - 1] = keyword[j]

Digit(d) ==
    CASE d = 0 -> "0" [] d = 1 -> "1" [] d = 2 -> "2" [] d = 3 -> "3" [] d = 4 -> "4"
      [] d = 5 -> "5" [] d = 6 -> "6" [] d = 7 -> "7" [] d = 8 -> "8" [] d = 9 -> "9"

RECURSIVE IntToStr(_)
\* str(n) of a non-negative integer, as the f-strings format a status code.
IntToStr(n) ==
    IF n < 10 THEN <<Digit(n)>> ELSE IntToStr(n \div 10) \o <<Digit(n % 10)>>

(***************************************************************************)
(* The permanent keywords of classify_error.                               *)
(***************************************************************************)
\* "unauthorized"
KW_unauthorized ==
    <<"u","n","a","u","t","h","o","r","i","z","e","d">>

\* "forbidden"
KW_forbidden ==
    <<"f","o","r","b","i","d","d","e","n">>

\* "authentication"
KW_authentication ==
    <<"a","u","t","h","e","n","t","i","c","a","t","i","o","n">>

\* "invalid token"
KW_invalid_token ==
    <<"i","n","v","a","l","i","d"," ","t","o","k","e","n">>

\* "bad request"
KW_bad_request ==
    <<"b","a","d"," ","r","e","q","u","e","s","t">>

\* "malformed"
KW_malformed ==
    <<"m","a","l","f","o","r","m","e","d">>

\* "invalid data"
KW_invalid_data ==
    <<"i","n","v","a","l","i","d"," ","d","a","t","a">>

\* "validation failed"
KW_validation_failed ==
    <<"v","a","l","i","d","a","t","i","o","n"," ","f","a","i","l","e","d">>

\* "not found"
KW_not_found ==
    <<"n","o","t"," ","f","o","u","n","d">>

\* "conflict"
KW_conflict ==
    <<"c","o","n","f","l","i","c","t">>

\* "duplicate"
KW_duplicate ==
    <<"d","u","p","l","i","c","a","t","e">>

\* "already exists"
KW_already_exists ==
    <<"a","l","r","e","a","d","y"," ","e","x","i","s","t","s">>

permanent_keywords ==
    << KW_unauthorized, KW_forbidden, KW_authentication, KW_invalid_token,
       KW_bad_request, KW_malformed, KW_invalid_data, KW_validation_failed,
       KW_not_found, KW_conflict, KW_duplicate, KW_already_exists >>

\* A variant of the status set below in which 422 is not a permanent status.
permanent_status_codes_without_422 == {400, 401, 403, 404, 405, 409}

\* A variant of the status set below in which 401 is not a permanent status.
permanent_status_codes_without_401 == {400, 403, 404, 405, 409, 422}

permanent_status_codes == {400, 401, 403, 404, 405, 409, 422}

\* ErrorType
TRANSIENT == "transient"
PERMANENT == "permanent"

\* status_code = None
NoStatus == 0

\* An exception as classify_error sees it: its class (a timeout class, a
\* connection/network class, or any other class) and str(exception).
Exc(kind, msg) == [kind |-> kind, msg |-> msg]

\* A variant of the classifier below that looks for the keywords before it
\* looks at the exception class and the status.
classify_error_keywords_first(exception, status_code) ==
    IF \E k \in 1..Len(permanent_keywords) :
            Contains(lower(exception.msg), permanent_keywords[k])
    THEN PERMANENT
    ELSE IF exception.kind = "timeout" THEN TRANSIENT
    ELSE IF exception.kind = "network" THEN TRANSIENT
    ELSE IF status_code # NoStatus /\ 500 <= status_code /\ status_code < 600 THEN TRANSIENT
    ELSE IF status_code # NoStatus /\ status_code = 429 THEN TRANSIENT
    ELSE IF status_code # NoStatus /\ status_code \in permanent_status_codes THEN PERMANENT
    ELSE TRANSIENT

\* A variant of the classifier below without the rule for status 429.
classify_error_without_429(exception, status_code) ==
    IF exception.kind = "timeout" THEN TRANSIENT
    ELSE IF exception.kind = "network" THEN TRANSIENT
    ELSE IF status_code # NoStatus /\ 500 <= status_code /\ status_code < 600 THEN TRANSIENT
    ELSE IF status_code # NoStatus /\ status_code \in permanent_status_codes THEN PERMANENT
    ELSE IF \E k \in 1..Len(permanent_keywords) :
                Contains(lower(exception.msg), permanent_keywords[k])
         THEN PERMANENT
    ELSE TRANSIENT

\* A variant of the classifier below whose default, when no rule decides, is
\* PERMANENT.
classify_error_default_permanent(exception, status_code) ==
    IF exception.kind = "timeout" THEN TRANSIENT
    ELSE IF exception.kind = "network" THEN TRANSIENT
    ELSE IF status_code # NoStatus /\ 500 <= status_code /\ status_code < 600 THEN TRANSIENT
    ELSE IF status_code # NoStatus /\ status_code = 429 THEN TRANSIENT
    ELSE PERMANENT

classify_error(exception, status_code) ==
    IF exception.kind = "timeout" THEN TRANSIENT
    ELSE IF exception.kind = "network" THEN TRANSIENT
    ELSE IF status_code # NoStatus /\ 500 <= status_code /\ status_code < 600 THEN TRANSIENT
    ELSE IF status_code # NoStatus /\ status_code = 429 THEN TRANSIENT
    ELSE IF status_code # NoStatus /\ status_code \in permanent_status_codes THEN PERMANENT
    ELSE IF \E k \in 1..Len(permanent_keywords) :
                Contains(lower(exception.msg), permanent_keywords[k])
         THEN PERMANENT
    ELSE TRANSIENT

(***************************************************************************)
(* The messages the two layers build.                                      *)
(***************************************************************************)
\* "Debit endpoint returned success=false: "
MsgSuccessFalse ==
    <<"D","e","b","i","t"," ","e","n","d","p","o","i","n","t"," ","r","e","t","u","r","n","e",
       "d"," ","s","u","c","c","e","s","s","=","f","a","l","s","e",":"," ">>

\* "Debit endpoint call failed with status "
MsgCallFailed ==
    <<"D","e","b","i","t"," ","e","n","d","p","o","i","n","t"," ","c","a","l","l"," ","f","a",
       "i","l","e","d"," ","w","i","t","h"," ","s","t","a","t","u","s"," ">>

\* "HTTP "
MsgHttp ==
    <<"H","T","T","P"," ">>

\* "API ERROR: Transaction "
MsgApiError ==
    <<"A","P","I"," ","E","R","R","O","R",":"," ","T","r","a","n","s","a","c","t","i","o","n",
       " ">>

\* " failed with status "
MsgFailedWithStatus ==
    <<" ","f","a","i","l","e","d"," ","w","i","t","h"," ","s","t","a","t","u","s"," ">>

\* ": "
MsgColon ==
    <<":"," ">>

\* "Transaction already sent to Payliance"
MsgAlreadySent ==
    <<"T","r","a","n","s","a","c","t","i","o","n"," ","a","l","r","e","a","d","y"," ","s","e",
       "n","t"," ","t","o"," ","P","a","y","l","i","a","n","c","e">>

\* "No JSON body provided"
MsgNoBody ==
    <<"N","o"," ","J","S","O","N"," ","b","o","d","y"," ","p","r","o","v","i","d","e","d">>

\* "transaction_id is required"
MsgIdRequired ==
    <<"t","r","a","n","s","a","c","t","i","o","n","_","i","d"," ","i","s"," ","r","e","q","u",
       "i","r","e","d">>

\* "PAYLIANCE_AUTH_TOKEN not configured"
MsgNoToken ==
    <<"P","A","Y","L","I","A","N","C","E","_","A","U","T","H","_","T","O","K","E","N"," ","n",
       "o","t"," ","c","o","n","f","i","g","u","r","e","d">>

\* "PAYLIANCE_BASE_URL not configured"
MsgNoUrl ==
    <<"P","A","Y","L","I","A","N","C","E","_","B","A","S","E","_","U","R","L"," ","n","o","t",
       " ","c","o","n","f","i","g","u","r","e","d">>

\* "Request timeout - Payliance API did not respond within 30 seconds"
MsgTimeout ==
    <<"R","e","q","u","e","s","t"," ","t","i","m","e","o","u","t"," ","-"," ","P","a","y","l",
       "i","a","n","c","e"," ","A","P","I"," ","d","i","d"," ","n","o","t"," ","r","e","s","p",
       "o","n","d"," ","w","i","t","h","i","n"," ","3","0"," ","s","e","c","o","n","d","s">>

\* "Network error connecting to Payliance API: "
MsgNetwork ==
    <<"N","e","t","w","o","r","k"," ","e","r","r","o","r"," ","c","o","n","n","e","c","t","i",
       "n","g"," ","t","o"," ","P","a","y","l","i","a","n","c","e"," ","A","P","I",":"," ">>

\* "Failed to call Payliance API: "
MsgRequestFailed ==
    <<"F","a","i","l","e","d"," ","t","o"," ","c","a","l","l"," ","P","a","y","l","i","a","n",
       "c","e"," ","A","P","I",":"," ">>

\* "Unexpected error: "
MsgUnexpected ==
    <<"U","n","e","x","p","e","c","t","e","d"," ","e","r","r","o","r",":"," ">>

\* "'NoneType' object has no attribute 'get'"
MsgNoneTypeGet ==
    <<"'","N","o","n","e","T","y","p","e","'"," ","o","b","j","e","c","t"," ","h","a","s"," ",
       "n","o"," ","a","t","t","r","i","b","u","t","e"," ","'","g","e","t","'">>

\* "'list' object has no attribute 'get'"
MsgListGet ==
    <<"'","l","i","s","t","'"," ","o","b","j","e","c","t"," ","h","a","s"," ","n","o"," ","a",
       "t","t","r","i","b","u","t","e"," ","'","g","e","t","'">>

\* "'utf-8' codec can't decode byte 0xff in position 0: invalid start byte"
MsgUtf8 ==
    <<"'","u","t","f","-","8","'"," ","c","o","d","e","c"," ","c","a","n","'","t"," ","d","e",
       "c","o","d","e"," ","b","y","t","e"," ","0","x","f","f"," ","i","n"," ","p","o","s","i",
       "t","i","o","n"," ","0",":"," ","i","n","v","a","l","i","d"," ","s","t","a","r","t"," ",
       "b","y","t","e">>

\* "All connection attempts failed"
MsgConnectFailed ==
    <<"A","l","l"," ","c","o","n","n","e","c","t","i","o","n"," ","a","t","t","e","m","p","t",
       "s"," ","f","a","i","l","e","d">>

\* "Server disconnected without sending a response."
MsgDisconnected ==
    <<"S","e","r","v","e","r"," ","d","i","s","c","o","n","n","e","c","t","e","d"," ","w","i",
       "t","h","o","u","t"," ","s","e","n","d","i","n","g"," ","a"," ","r","e","s","p","o","n",
       "s","e",".">>

\* "Malformed response from server"
MsgMalformed ==
    <<"M","a","l","f","o","r","m","e","d"," ","r","e","s","p","o","n","s","e"," ","f","r","o",
       "m"," ","s","e","r","v","e","r">>

\* "Service busy, try again later"
TextBusy ==
    <<"S","e","r","v","i","c","e"," ","b","u","s","y",","," ","t","r","y"," ","a","g","a","i",
       "n"," ","l","a","t","e","r">>

\* "Duplicate Transaction"
TextDuplicate ==
    <<"D","u","p","l","i","c","a","t","e"," ","T","r","a","n","s","a","c","t","i","o","n">>

\* "3f2b8c1e-9a4d-4e6f-8b1a-7c5d2e0f9a61"
RequestId ==
    <<"3","f","2","b","8","c","1","e","-","9","a","4","d","-","4","e","6","f","-","8","b","1",
       "a","-","7","c","5","d","2","e","0","f","9","a","6","1">>

\* "{'success': False, 'error': '"
ReprOpen ==
    <<"{","'","s","u","c","c","e","s","s","'",":"," ","F","a","l","s","e",","," ","'","e","r",
       "r","o","r","'",":"," ","'">>

\* "', 'request_id': '"
ReprRequestId ==
    <<"'",","," ","'","r","e","q","u","e","s","t","_","i","d","'",":"," ","'">>

\* "'}"
ReprClose ==
    <<"'","}">>

\* "{"success": false, "error": ""
JsonOpen ==
    <<"{","\"","s","u","c","c","e","s","s","\"",":"," ","f","a","l","s","e",","," ","\"","e",
       "r","r","o","r","\"",":"," ","\"">>

\* "", "error_type": ""
JsonErrorType ==
    <<"\"",","," ","\"","e","r","r","o","r","_","t","y","p","e","\"",":"," ","\"">>

\* "", "transaction_id": ""
JsonTransactionId ==
    <<"\"",","," ","\"","t","r","a","n","s","a","c","t","i","o","n","_","i","d","\"",":"," ",
       "\"">>

\* "", "request_id": ""
JsonRequestId ==
    <<"\"",","," ","\"","r","e","q","u","e","s","t","_","i","d","\"",":"," ","\"">>

\* ""}"
JsonClose ==
    <<"\"","}">>

\* "", "processing_time_ms": 12.5}"
JsonCloseTimed ==
    <<"\"",","," ","\"","p","r","o","c","e","s","s","i","n","g","_","t","i","m","e","_","m",
       "s","\"",":"," ","1","2",".","5","}">>

\* "T1"
T1 ==
    <<"T","1">>

\* "T2"
T2 ==
    <<"T","2">>

\* "transient"
TextTransient ==
    <<"t","r","a","n","s","i","e","n","t">>

\* "permanent"
TextPermanent ==
    <<"p","e","r","m","a","n","e","n","t">>

ErrorTypeValue(error_type) ==
    IF error_type = TRANSIENT THEN TextTransient ELSE TextPermanent

(***************************************************************************)
(* Inputs: transactions, message bodies, request bodies, gateway answers.  *)
(***************************************************************************)
\* transaction_id absent, None or "" (all falsy for "if not transaction_id").
NoId == <<>>

\* Rows of bim_transaction (each joined with its consumer and merchant).
bim_transaction == {T1, T2}

\* A body: how it parses, and the transaction_id it carries (NoId if none).
Body(kind, transaction_id) == [kind |-> kind, transaction_id |-> transaction_id]

NoBody == Body("none", NoId)

\* Service Bus message bodies: a JSON object with a transaction_id, a JSON
\* object without one, text that is not JSON, bytes that are not UTF-8, and
\* valid JSON that is not an object (a list).
MessageBodies ==
    {Body("object", t) : t \in bim_transaction}
        \cup {Body("object", NoId), Body("notjson", NoId),
              Body("undecodable", NoId), Body("nonobject", NoId)}

\* Bodies of direct POST /api/debit requests: the same, and the empty object.
RequestBodies ==
    {Body("object", t) : t \in bim_transaction}
        \cup {Body("object", NoId), Body("empty", NoId),
              Body("notjson", NoId), Body("nonobject", NoId)}

\* Environment of the function app: both Payliance settings present, or one
\* of them missing.
Environments == {"ok", "no_token", "no_url"}

\* AuthorizationId values the gateway hands out; "" is an absent one.
AuthorizationIds == {"A1"}

NoAuthorizationId == ""

\* ValidationCode values: 1 accepts, anything else does not.
ValidationCodes == {1, 2}

\* Status codes of gateway responses other than 200.
ErrorStatusCodes == {401, 402, 429, 503}

\* response.text of a gateway response other than 200.
GatewayTexts == {TextBusy, TextDuplicate}

\* str(e) of an httpx.RequestError that is neither a timeout nor a network error.
RequestErrorTexts == {MsgDisconnected, MsgMalformed}

Gw(kind, status_code, json, code, auth, text) ==
    [kind |-> kind, status_code |-> status_code, json |-> json,
     ValidationCode |-> code, AuthorizationId |-> auth, text |-> text]

NoGw == Gw("none", NoStatus, FALSE, 0, NoAuthorizationId, <<>>)

\* Everything "await client.post(url, ...)" to the gateway can end in.
GatewayOutcomes ==
    {Gw("response", 200, TRUE, c, a, <<>>) :
        c \in ValidationCodes, a \in AuthorizationIds \cup {NoAuthorizationId}}
        \cup {Gw("response", 200, FALSE, 0, NoAuthorizationId, <<>>)}
        \cup {Gw("response", s, FALSE, 0, NoAuthorizationId, t) :
                s \in ErrorStatusCodes, t \in GatewayTexts}
        \cup {Gw("timeout", NoStatus, FALSE, 0, NoAuthorizationId, <<>>),
              Gw("network", NoStatus, FALSE, 0, NoAuthorizationId, MsgConnectFailed)}
        \cup {Gw("other", NoStatus, FALSE, 0, NoAuthorizationId, t) : t \in RequestErrorTexts}

(***************************************************************************)
(* The HTTP response of the /debit endpoint.                               *)
(***************************************************************************)
\* status_code, the "success" and "error_type" members of the JSON body, and
\* which error text the body carries.
Resp(status_code, success, error_type, error) ==
    [status_code |-> status_code, success |-> success, error_type |-> error_type, error |-> error]

NoResp == Resp(NoStatus, FALSE, "none", "none")

\* The Functions host's answer when the endpoint let an exception escape.
HostError == Resp(500, FALSE, "none", "crashed")

(***************************************************************************)
(* Python values of the record get_transaction_by_id returns and of the    *)
(* payload built from it.                                                  *)
(***************************************************************************)
\* None, the value of a NULL column
None == [tag |-> "None"]

Str(s) == [tag |-> "str", v |-> s]

Num(n) == [tag |-> "num", v |-> n]

Bool(b) == [tag |-> "bool", v |-> b]

\* A datetime: the stamp column, or datetime.now().
Datetime(d) == [tag |-> "datetime", v |-> d]

\* bool(value), as "or" and "not" take it
Truthy(value) ==
    CASE value.tag = "None" -> FALSE
      [] value.tag = "str" -> value.v # <<>>
      [] value.tag = "num" -> value.v # 0
      [] value.tag = "bool" -> value.v
      [] OTHER -> TRUE

\* x or y
Or(x, y) == IF Truthy(x) THEN x ELSE y

\* transaction_data.get(key, default): the default only for a key the dict
\* does not have.
Get(transaction_data, key, default) ==
    IF key \in DOMAIN transaction_data THEN transaction_data[key] ELSE default

\* A variant of right(s, n) that takes the leading characters.
Right_leading(s, n) ==
    IF Len(s) <= n THEN s ELSE SubSeq(s, 1, n)

\* right(s, n) of the query: the last n characters of s.
Right(s, n) ==
    IF Len(s) <= n THEN s ELSE SubSeq(s, Len(s) - n + 1, Len(s))

\* "POS"
TextPOS == <<"P","O","S">>

\* "WEB"
TextWEB == <<"W","E","B">>

\* "Personal Checking"
TextPersonalChecking ==
    <<"P","e","r","s","o","n","a","l"," ","C","h","e","c","k","i","n","g">>

\* "121000358"
TextRouting == <<"1","2","1","0","0","0","3","5","8">>

\* "5428610017522"
TextAccountNumber == <<"5","4","2","8","6","1","0","0","1","7","5","2","2">>

\* "Doe"
TextDoe == <<"D","o","e">>

\* "5550100"
TextHomePhone == <<"5","5","5","0","1","0","0">>

\* "5550199"
TextMobilePhone == <<"5","5","5","0","1","9","9">>

\* "TX20240001", an id longer than its serial number
LongId == <<"T","X","2","0","2","4","0","0","0","1">>

\* The columns of the query that the payload below is built from.
Columns ==
    {"transaction_id", "serial_number", "stamp", "total_amount", "lname", "home_phone",
     "mobile_phone", "ach_trans_type"}

\* dict(zip(columns, row)) of a bim_transaction row without an event: every
\* column is a key, a NULL column has the value None.
Row(transaction_id, stamp, total_amount, lname, home_phone, mobile_phone, ach_trans_type) ==
    [column \in Columns |->
        CASE column = "transaction_id" -> None
          [] column = "serial_number" -> Str(Right(transaction_id, 6))
          [] column = "stamp" -> stamp
          [] column = "total_amount" -> total_amount
          [] column = "lname" -> lname
          [] column = "home_phone" -> home_phone
          [] column = "mobile_phone" -> mobile_phone
          [] column = "ach_trans_type" -> ach_trans_type]

\* The row of a transaction of bim_transaction, none of its columns NULL.
TransactionData(transaction_id) ==
    Row(transaction_id, Datetime("stamp"), Num(25), Str(TextDoe), Str(TextHomePhone),
        Str(TextMobilePhone), Str(TextWEB))

\* No payload: float() raised before the dict was built.
NoPayload == [uniqueTranId |-> None]

\* A variant of the payload below that carries the id of one fixed transaction.
transaction_payload_with_fixed_id(transaction_id, transaction_data) ==
    [raised |-> "none", payload |-> [uniqueTranId |-> Str(T1)]]

\* The payload built from the record (stamp parsing included), or the
\* TypeError float(None) raises.  The fields kept are those the record or a
\* default decides; the other fields are built the same way as lastName.
transaction_payload(transaction_id, transaction_data) ==
    IF Get(transaction_data, "total_amount", Num(0)).tag # "num"
    THEN [raised |-> "TypeError", payload |-> NoPayload]
    ELSE [raised |-> "none",
          payload |->
            [uniqueTranId |-> Str(transaction_id),
             routing |-> Str(TextRouting),
             accountNumber |-> Str(TextAccountNumber),
             checkAmount |-> Get(transaction_data, "total_amount", Num(0)),
             secCode |-> Get(transaction_data, "ach_trans_type", Str(TextPOS)),
             posTransactionDate |->
                 IF Truthy(Get(transaction_data, "stamp", None))
                 THEN Get(transaction_data, "stamp", None) ELSE Datetime("now"),
             posTransactionSerialNumber |-> Get(transaction_data, "serial_number", Str(<<>>)),
             lastName |-> Get(transaction_data, "lname", Str(<<>>)),
             phone |-> Or(Get(transaction_data, "home_phone", None),
                          Get(transaction_data, "mobile_phone", Str(<<>>))),
             accountType |-> Str(TextPersonalChecking),
             isSameDay |-> Bool(FALSE),
             microEntry |-> Bool(FALSE),
             convenienceFee |-> Bool(FALSE),
             convenienceFeeAmount |-> Num(0)]]

\* One trigger handling: a queue delivery (handler run plus the endpoint
\* invocation it calls) or a direct HTTP call (endpoint invocation only).
\*   hpc  where service_bus_debit_processor is: idle, calling, acked, raised, na
\*   call  how the handler's HTTP call to the endpoint ended: none, response, failed
\*   epc  where payliance_debit_function is: idle, start, initialize_pool,
\*        get_transaction_by_id, post, insert_transaction_event, done, crashed,
\*        unreached
\*   guard  what the guard read: none, norecord, settled, unsettled
\*   uniqueTranId  the uniqueTranId of the payload built for the post, if any
\*   insert  what insert_transaction_event returned: none, true, false
IdleRun ==
    [trigger |-> "none", body |-> NoBody, transaction_id |-> NoId,
     hpc |-> "idle", call |-> "none", epc |-> "idle", guard |-> "none",
     uniqueTranId |-> NoId, gw |-> NoGw, insert |-> "none", resp |-> NoResp]

\* The function app handles triggers concurrently; two at a time are modelled.
Workers == {1, 2}

\* No call of classify_error on its own has been made.
\*   exception, status_code  the arguments of the last call
\*   error_type  what it returned
\*   previous  what the call before it returned, if it had the same arguments
IdleClassifier ==
    [exception |-> Exc("none", <<>>), status_code |-> NoStatus, error_type |-> "none",
     previous |-> "none"]

\* No payload has been built on its own.
\*   transaction_id, transaction_data  the id and the record of the last build
\*   raised  the exception it raised: none, TypeError
\*   payload  the payload it made
IdleBuilder ==
    [built |-> FALSE, transaction_id |-> NoId,
     transaction_data |-> [column \in Columns |-> None],
     raised |-> "none", payload |-> NoPayload]

VARIABLES
    builder,                 \* the last payload built on its own
    classifier,              \* the last call of classify_error made on its own
    env,                     \* os.environ of the function app
    connection_pool,         \* db.connection_pool: 0 is None, n the n-th pool created
    poolsCreated,            \* how many pools aioodbc.create_pool has returned
    bim_transaction_events,  \* rows of the table, in insertion order
    posts,                   \* per transaction id: client.post calls to the gateway
    accepted,                \* per transaction id: responses 200 with ValidationCode 1
    succeeded,               \* transaction ids some dispatch has reported success for
    queue,                   \* per message body: queued, locked or acked
    started,                 \* how many triggers have been handled or begun
    runs                     \* per worker: the trigger handling it is at, or was at last

vars ==
    <<builder, classifier, env, connection_pool, poolsCreated, bim_transaction_events,
              posts, accepted, succeeded, queue, started, runs>>

\* db.connection_pool is None
NoPool == 0

\* created_by of every event the endpoint inserts
CreatedBy == 9998

\* A variant of the event below that is always written for transaction T1.
Event_of_first_transaction(transaction_id, payliance_auth_id) ==
    [transaction_id |-> T1, payliance_auth_id |-> payliance_auth_id,
     created_by |-> CreatedBy]

Event(transaction_id, payliance_auth_id) ==
    [transaction_id |-> transaction_id, payliance_auth_id |-> payliance_auth_id,
     created_by |-> CreatedBy]

EventsOf(transaction_id) ==
    {i \in 1..Len(bim_transaction_events) :
        bim_transaction_events[i].transaction_id = transaction_id}

\* The table as the function app finds it: empty, or T2 settled earlier.
InitialEvents == {<<>>, <<Event(T2, "A1")>>}

Init ==
    /\ builder = IdleBuilder
    /\ classifier = IdleClassifier
    /\ env \in Environments
    /\ connection_pool = NoPool
    /\ poolsCreated = 0
    /\ bim_transaction_events \in InitialEvents
    /\ posts = [t \in bim_transaction |-> 0]
    /\ accepted = [t \in bim_transaction |-> 0]
    /\ succeeded = {}
    /\ queue = [m \in MessageBodies |-> "queued"]
    /\ started = 0
    /\ runs = [r \in Workers |-> IdleRun]

(***************************************************************************)
(* payliance_debit_function, the /debit endpoint.                          *)
(***************************************************************************)
\* str(e) of the DebitError the endpoint raises for a gateway status other than 200.
DebitErrorText(transaction_id, gw) ==
    MsgApiError \o transaction_id \o MsgFailedWithStatus \o IntToStr(gw.status_code)
        \o MsgColon \o gw.text

\* The "error" member of the endpoint's JSON body.
ErrorText(resp, gw, transaction_id) ==
    CASE resp.error = "already_sent" -> MsgAlreadySent
      [] resp.error = "no_body" -> MsgNoBody
      [] resp.error = "id_required" -> MsgIdRequired
      [] resp.error = "no_token" -> MsgNoToken
      [] resp.error = "no_url" -> MsgNoUrl
      [] resp.error = "api_error" -> DebitErrorText(transaction_id, gw)
      [] resp.error = "timeout" -> MsgTimeout
      [] resp.error = "network" -> MsgNetwork \o gw.text
      [] resp.error = "request_error" -> MsgRequestFailed \o gw.text
      [] resp.error = "unexpected" -> MsgUnexpected \o MsgNoneTypeGet
      [] OTHER -> <<>>

\* response.text of the endpoint: json.dumps of the body it returns. The three
\* early returns carry success, error and request_id; the except handlers add
\* error_type, transaction_id and processing_time_ms.
response_text(resp, gw, transaction_id) ==
    IF resp.error = "crashed" THEN <<>>
    ELSE IF resp.error_type = "none"
         THEN JsonOpen \o ErrorText(resp, gw, transaction_id) \o JsonRequestId \o RequestId
                \o JsonClose
    ELSE JsonOpen \o ErrorText(resp, gw, transaction_id) \o JsonErrorType
            \o ErrorTypeValue(resp.error_type) \o JsonTransactionId \o transaction_id
            \o JsonRequestId \o RequestId \o JsonCloseTimed

\* str(response.json()) of the same body, as the f-string of the caller prints it.
response_repr(resp, gw, transaction_id) ==
    ReprOpen \o ErrorText(resp, gw, transaction_id) \o ReprRequestId \o RequestId \o ReprClose

\* classify_error(e) of the exceptions that reach an "except Exception" or an
\* "except httpx.RequestError" clause without a status code, evaluated once
\* for each text.
ExceptionClass ==
    [msg \in RequestErrorTexts \cup {MsgNoneTypeGet, MsgListGet, MsgUtf8} |->
        classify_error(Exc("other", msg), NoStatus)] @@ <<>>

\* classify_error(Exception(f"HTTP {status}"), status) of line 567, evaluated
\* once for each status.
StatusClass ==
    [status_code \in ErrorStatusCodes |->
        classify_error(Exc("other", MsgHttp \o IntToStr(status_code)), status_code)] @@ <<>>

\* A variant of the return below that starts the dispatch over when the
\* failure it would report is transient.
Respond_retrying_transient(run, resp) ==
    IF resp.error_type = TRANSIENT
    THEN [run EXCEPT !.epc = "get_transaction_by_id", !.gw = NoGw]
    ELSE [run EXCEPT !.epc = "done", !.resp = resp]

\* The endpoint returns with this response.
Respond(run, resp) == [run EXCEPT !.epc = "done", !.resp = resp]

\* A variant of the clause below that reports every exception as permanent.
UnexpectedError_permanent(run, msg) ==
    Respond(run, Resp(400, FALSE, PERMANENT, "unexpected"))

\* "except Exception as e" of the endpoint, for an exception with this text,
\* once transaction_id is bound.
UnexpectedError(run, msg) ==
    LET error_type == ExceptionClass[msg]
    IN  Respond(run, Resp(IF error_type = TRANSIENT THEN 500 ELSE 400, FALSE,
                          error_type, "unexpected"))

\* req.get_json(): the queue handler posts {"transaction_id": transaction_id}; a
\* direct caller posts what it likes.
RequestBody(run) ==
    IF run.trigger = "queue" THEN Body("object", run.transaction_id) ELSE run.body

\* A variant of the checks below that takes any body to the record lookup.
RequestChecks_without_body_checks(run, pool) ==
    IF pool # NoPool
    THEN [run EXCEPT !.epc = "get_transaction_by_id"]
    ELSE UnexpectedError(run, MsgNoneTypeGet)

\* The endpoint from req.get_json() to the first await after it: the body and
\* environment checks, then either the record lookup begins or, with no
\* connection pool, transaction_data stays None and line 451 raises.
RequestChecks(run, pool) ==
    LET body == RequestBody(run)
    IN
    CASE body.kind \in {"notjson", "nonobject"} ->
            [run EXCEPT !.epc = "crashed", !.resp = HostError]
      [] body.kind = "empty" -> Respond(run, Resp(400, FALSE, "none", "no_body"))
      [] body.kind = "object" /\ body.transaction_id = NoId ->
            Respond(run, Resp(400, FALSE, "none", "id_required"))
      [] body.kind = "object" /\ body.transaction_id # NoId /\ env = "no_token" ->
            Respond(run, Resp(500, FALSE, "none", "no_token"))
      [] body.kind = "object" /\ body.transaction_id # NoId /\ env = "no_url" ->
            Respond(run, Resp(500, FALSE, "none", "no_url"))
      [] body.kind = "object" /\ body.transaction_id # NoId /\ env = "ok" ->
            IF pool # NoPool
            THEN [run EXCEPT !.epc = "get_transaction_by_id"]
            ELSE UnexpectedError(run, MsgNoneTypeGet)

\* Entry: "if not db.connection_pool" decides whether initialize_pool is awaited.
EndpointStart(r) ==
    /\ runs[r].epc = "start"
    /\ runs' = [runs EXCEPT ![r] =
                  IF connection_pool = NoPool
                  THEN [@ EXCEPT !.epc = "initialize_pool"]
                  ELSE RequestChecks(@, connection_pool)]
    /\ UNCHANGED <<builder, classifier, env, connection_pool, poolsCreated,
                   bim_transaction_events, posts, accepted, succeeded, queue, started>>

\* db.initialize_pool: create_pool returns a new pool, which is assigned, or it
\* raises (or the connection string is empty) and the handle is left as it was.
initialize_pool(r) ==
    /\ runs[r].epc = "initialize_pool"
    /\ \/ /\ poolsCreated' = poolsCreated + 1
          /\ connection_pool' = poolsCreated + 1
       \/ UNCHANGED <<poolsCreated, connection_pool>>
    /\ runs' = [runs EXCEPT ![r] = RequestChecks(@, connection_pool')]
    /\ UNCHANGED <<builder, classifier, env, bim_transaction_events, posts, accepted, succeeded,
                   queue, started>>

\* A variant of the lookup below that does not join bim_transaction_events, so
\* that no record ever carries the settlement marker.
get_transaction_by_id_without_join(transaction_id) ==
    IF transaction_id \notin bim_transaction THEN "norecord"
    ELSE "unsettled"

\* db.get_transaction_by_id: the row of bim_transaction left-joined with
\* bim_transaction_events; te.transaction_id is the settlement marker.
get_transaction_by_id(transaction_id) ==
    IF transaction_id \notin bim_transaction THEN "norecord"
    ELSE IF EventsOf(transaction_id) # {} THEN "settled"
    ELSE "unsettled"

\* The guard: the lookup returns, and the endpoint either answers "already
\* sent", or fails on a missing record, or builds the payload and posts it.
Guard(r) ==
    /\ runs[r].epc = "get_transaction_by_id"
    /\ \E read \in {get_transaction_by_id(runs[r].transaction_id), "norecord"} :
         \/ /\ read = "norecord"
            /\ runs' = [runs EXCEPT ![r] =
                          UnexpectedError([@ EXCEPT !.guard = read], MsgNoneTypeGet)]
            /\ UNCHANGED posts
         \/ /\ read = "settled"
            /\ runs' = [runs EXCEPT ![r] =
                          Respond([@ EXCEPT !.guard = read],
                                  Resp(200, FALSE, "none", "already_sent"))]
            /\ UNCHANGED posts
         \/ /\ read = "unsettled"
            /\ runs' = [runs EXCEPT ![r] =
                          [@ EXCEPT !.guard = read, !.epc = "post",
                                    !.uniqueTranId =
                                        transaction_payload(
                                            runs[r].transaction_id,
                                            TransactionData(runs[r].transaction_id)
                                        ).payload.uniqueTranId.v]]
            /\ posts' = [posts EXCEPT ![runs[r].transaction_id] = @ + 1]
    /\ UNCHANGED <<builder, classifier, env, connection_pool, poolsCreated,
                   bim_transaction_events, accepted, succeeded, queue, started>>

\* A variant of the handling below that does not look at ValidationCode before
\* it inserts the event.
AfterPost_ignoring_ValidationCode(run, gw, pool) ==
    LET got == [run EXCEPT !.gw = gw]
    IN  CASE gw.kind = "timeout" -> Respond(got, Resp(408, FALSE, TRANSIENT, "timeout"))
          [] gw.kind = "network" -> Respond(got, Resp(503, FALSE, TRANSIENT, "network"))
          [] gw.kind = "other" ->
                LET error_type == ExceptionClass[gw.text]
                IN  Respond(got, Resp(IF error_type = TRANSIENT THEN 500 ELSE 400, FALSE,
                                      error_type, "request_error"))
          [] gw.kind = "response" /\ gw.status_code # 200 ->
                LET error_type == StatusClass[gw.status_code]
                IN  Respond(got, Resp(gw.status_code, FALSE, error_type, "api_error"))
          [] gw.kind = "response" /\ gw.status_code = 200 ->
                IF /\ gw.json
                   /\ gw.AuthorizationId # NoAuthorizationId
                   /\ pool # NoPool
                THEN [got EXCEPT !.epc = "insert_transaction_event"]
                ELSE Respond(got, Resp(200, TRUE, "none", "none"))

\* What the endpoint does with the outcome of client.post, up to its return or
\* to the await of insert_transaction_event.
AfterPost(run, gw, pool) ==
    LET got == [run EXCEPT !.gw = gw]
    IN  CASE gw.kind = "timeout" -> Respond(got, Resp(408, FALSE, TRANSIENT, "timeout"))
          [] gw.kind = "network" -> Respond(got, Resp(503, FALSE, TRANSIENT, "network"))
          [] gw.kind = "other" ->
                LET error_type == ExceptionClass[gw.text]
                IN  Respond(got, Resp(IF error_type = TRANSIENT THEN 500 ELSE 400, FALSE,
                                      error_type, "request_error"))
          [] gw.kind = "response" /\ gw.status_code # 200 ->
                LET error_type == StatusClass[gw.status_code]
                IN  Respond(got, Resp(gw.status_code, FALSE, error_type, "api_error"))
          [] gw.kind = "response" /\ gw.status_code = 200 ->
                IF /\ gw.json
                   /\ gw.ValidationCode = 1
                   /\ gw.AuthorizationId # NoAuthorizationId
                   /\ pool # NoPool
                THEN [got EXCEPT !.epc = "insert_transaction_event"]
                ELSE Respond(got, Resp(200, TRUE, "none", "none"))

\* The gateway answers (or the call fails).
Post(r) ==
    /\ runs[r].epc = "post"
    /\ \E gw \in GatewayOutcomes :
         /\ runs' = [runs EXCEPT ![r] = AfterPost(@, gw, connection_pool)]
         /\ accepted' =
              IF gw.kind = "response" /\ gw.status_code = 200 /\ gw.json /\ gw.ValidationCode = 1
              THEN [accepted EXCEPT ![runs[r].transaction_id] = @ + 1]
              ELSE accepted
         /\ succeeded' =
              IF runs'[r].resp.success THEN succeeded \cup {runs[r].transaction_id}
              ELSE succeeded
    /\ UNCHANGED <<builder, classifier, env, connection_pool, poolsCreated,
                   bim_transaction_events, posts, queue, started>>

\* A variant of the insert below after whose failure the endpoint answers 500.
insert_transaction_event_failure_reported(r) ==
    /\ runs[r].epc = "insert_transaction_event"
    /\ \/ /\ bim_transaction_events' =
               Append(bim_transaction_events,
                      Event(runs[r].transaction_id, runs[r].gw.AuthorizationId))
          /\ runs' = [runs EXCEPT ![r] =
                        Respond([@ EXCEPT !.insert = "true"], Resp(200, TRUE, "none", "none"))]
          /\ succeeded' = succeeded \cup {runs[r].transaction_id}
       \/ /\ UNCHANGED <<bim_transaction_events, succeeded>>
          /\ runs' = [runs EXCEPT ![r] =
                        Respond([@ EXCEPT !.insert = "false"],
                                Resp(500, FALSE, TRANSIENT, "unexpected"))]
    /\ UNCHANGED <<builder, classifier, env, connection_pool, poolsCreated, posts, accepted,
                   queue, started>>

\* A variant of the insert below that reports True without storing a row.
insert_transaction_event_without_row(r) ==
    /\ runs[r].epc = "insert_transaction_event"
    /\ runs' = [runs EXCEPT ![r] =
                  Respond([@ EXCEPT !.insert = "true"], Resp(200, TRUE, "none", "none"))]
    /\ succeeded' = succeeded \cup {runs[r].transaction_id}
    /\ UNCHANGED <<builder, classifier, env, connection_pool, poolsCreated,
                   bim_transaction_events, posts, accepted, queue, started>>

\* db.insert_transaction_event: a plain INSERT; True when a row was inserted,
\* False when the statement raised.
insert_transaction_event(r) ==
    /\ runs[r].epc = "insert_transaction_event"
    /\ \/ /\ bim_transaction_events' =
               Append(bim_transaction_events,
                      Event(runs[r].transaction_id, runs[r].gw.AuthorizationId))
          /\ runs' = [runs EXCEPT ![r] =
                        Respond([@ EXCEPT !.insert = "true"], Resp(200, TRUE, "none", "none"))]
       \/ /\ UNCHANGED bim_transaction_events
          /\ runs' = [runs EXCEPT ![r] =
                        Respond([@ EXCEPT !.insert = "false"], Resp(200, TRUE, "none", "none"))]
    /\ succeeded' = succeeded \cup {runs[r].transaction_id}
    /\ UNCHANGED <<builder, classifier, env, connection_pool, poolsCreated, posts, accepted,
                   queue, started>>

(***************************************************************************)
(* call_debit_endpoint_with_error_handling and service_bus_debit_processor *)
(***************************************************************************)
\* The caller's reading of a response of the endpoint that does not report
\* success (lines 259-286): the classification of a message that embeds the
\* response.
classify_response(resp, gw, transaction_id) ==
    IF resp.status_code = 200
    THEN classify_error(Exc("other", MsgSuccessFalse \o response_repr(resp, gw, transaction_id)),
                        resp.status_code)
    ELSE classify_error(Exc("other", MsgCallFailed \o IntToStr(resp.status_code) \o MsgColon
                                        \o response_text(resp, gw, transaction_id)),
                        resp.status_code)

\* Every response without success the endpoint can return, with the gateway
\* outcome and the transaction id its text embeds.
FailureResponses ==
    LET run(t) == [IdleRun EXCEPT !.transaction_id = t]
        ids == bim_transaction \cup {NoId}
    IN  {<<resp, NoGw, t>> :
            resp \in {Resp(400, FALSE, "none", "no_body"), Resp(400, FALSE, "none", "id_required"),
                      Resp(500, FALSE, "none", "no_token"), Resp(500, FALSE, "none", "no_url"),
                      Resp(200, FALSE, "none", "already_sent"), HostError,
                      UnexpectedError(run(NoId), MsgNoneTypeGet).resp},
            t \in ids}
        \cup {<<AfterPost(run(t), gw, NoPool).resp, gw, t>> :
                gw \in {g \in GatewayOutcomes : ~AfterPost(run(NoId), g, NoPool).resp.success},
                t \in ids}

\* classify_response, evaluated once for each response.
ResponseClass ==
    [x \in FailureResponses |-> classify_response(x[1], x[2], x[3])] @@ <<>>

\* The result dictionary of call_debit_endpoint_with_error_handling.
Result(success, error_type) == [success |-> success, error_type |-> error_type]

\* The caller's reading of the endpoint's HTTP response (lines 259-286).
call_debit_endpoint_response(run) ==
    IF run.resp.status_code = 200 /\ run.resp.success
    THEN Result(TRUE, "none")
    ELSE Result(FALSE, ResponseClass[<<run.resp, run.gw, run.transaction_id>>])

\* The caller's except clauses (lines 288-321) for a failed HTTP call: a
\* timeout, a connection or network error, or another exception with this text.
call_debit_endpoint_failure(kind, msg) ==
    IF kind \in {"timeout", "network"}
    THEN Result(FALSE, TRANSIENT)
    ELSE Result(FALSE, ExceptionClass[msg])

\* What the queue handler does with the result (lines 154-191): return, which
\* acknowledges the message, or raise, which has Service Bus redeliver it.
Decide(result) ==
    IF result.success THEN "acked"
    ELSE IF result.error_type = PERMANENT THEN "acked"
    ELSE "raised"

\* The handler's "except Exception" (lines 193-215) for an exception raised
\* before the endpoint is called.
DecideUnexpected(msg) ==
    IF ExceptionClass[msg] = PERMANENT THEN "acked" ELSE "raised"

\* The queue after the handler acknowledged or raised.
Settle(m, hpc) == [queue EXCEPT ![m] = IF hpc = "acked" THEN "acked" ELSE "queued"]

\* Nothing of this trigger handling is still running.
Finished(run) ==
    /\ run.hpc \in {"idle", "acked", "raised", "na"}
    /\ run.epc \in {"idle", "done", "crashed", "unreached"}

\* Worker r takes the next trigger: an idle worker first, else one whose last
\* trigger handling is finished.
FreeWorker(r) ==
    /\ started < MaxRuns
    /\ Finished(runs[r])
    /\ \A q \in Workers : q < r => runs[q].trigger # "none"
    /\ runs[r].trigger # "none" =>
            \A q \in Workers : /\ runs[q].trigger # "none"
                               /\ q < r => ~Finished(runs[q])

\* Service Bus delivers message m: the handler decodes and parses the body and
\* either ends at once or calls the endpoint.
Deliver(m, r) ==
    /\ FreeWorker(r)
    /\ queue[m] = "queued"
    /\ started' = started + 1
    /\ LET run == [IdleRun EXCEPT !.trigger = "queue", !.body = m]
       IN  \/ /\ m.kind = "undecodable"
              /\ runs' = [runs EXCEPT ![r] = [run EXCEPT !.hpc = DecideUnexpected(MsgUtf8)]]
              /\ queue' = Settle(m, DecideUnexpected(MsgUtf8))
           \/ /\ m.kind = "notjson"
              /\ runs' = [runs EXCEPT ![r] = [run EXCEPT !.hpc = "acked"]]
              /\ queue' = Settle(m, "acked")
           \/ /\ m.kind = "nonobject"
              /\ runs' = [runs EXCEPT ![r] = [run EXCEPT !.hpc = DecideUnexpected(MsgListGet)]]
              /\ queue' = Settle(m, DecideUnexpected(MsgListGet))
           \/ /\ m.kind = "object"
              /\ m.transaction_id = NoId
              /\ runs' = [runs EXCEPT ![r] = [run EXCEPT !.hpc = "acked"]]
              /\ queue' = Settle(m, "acked")
           \/ /\ m.kind = "object"
              /\ m.transaction_id # NoId
              /\ runs' = [runs EXCEPT ![r] =
                            [run EXCEPT !.transaction_id = m.transaction_id,
                                        !.hpc = "calling", !.epc = "start"]]
              /\ queue' = [queue EXCEPT ![m] = "locked"]
    /\ UNCHANGED <<builder, classifier, env, connection_pool, poolsCreated,
                   bim_transaction_events, posts, accepted, succeeded>>

\* The handler receives the endpoint's response and decides.
HandlerReceive(r) ==
    /\ runs[r].hpc = "calling"
    /\ runs[r].epc \in {"done", "crashed"}
    /\ \E result \in {call_debit_endpoint_response(runs[r])} :
         /\ runs' = [runs EXCEPT ![r] = [@ EXCEPT !.call = "response", !.hpc = Decide(result)]]
         /\ queue' = Settle(runs[r].body, Decide(result))
    /\ UNCHANGED <<builder, classifier, env, connection_pool, poolsCreated,
                   bim_transaction_events, posts, accepted, succeeded, started>>

\* The handler's HTTP call to the endpoint fails. A timeout (60 s) can strike
\* at any time and the endpoint runs on; a connection error strikes before the
\* endpoint runs, which then never does; any other httpx.RequestError strikes
\* either before the request is sent or while the response is read.
HandlerCallFails(r) ==
    /\ runs[r].hpc = "calling"
    /\ \E kind \in {"timeout", "network", "other"}, msg \in RequestErrorTexts :
         /\ kind = "network" => runs[r].epc = "start"
         /\ kind = "other" => runs[r].epc \in {"start", "done", "crashed"}
         /\ kind # "other" => msg = MsgDisconnected
         /\ \E result \in {call_debit_endpoint_failure(kind, msg)} :
              /\ runs' = [runs EXCEPT ![r] =
                            [@ EXCEPT !.call = "failed", !.hpc = Decide(result),
                                      !.epc = IF @ = "start" /\ kind # "timeout"
                                              THEN "unreached" ELSE @]]
              /\ queue' = Settle(runs[r].body, Decide(result))
    /\ UNCHANGED <<builder, classifier, env, connection_pool, poolsCreated,
                   bim_transaction_events, posts, accepted, succeeded, started>>

\* A direct POST /api/debit.
HttpTrigger(b, r) ==
    /\ FreeWorker(r)
    /\ started' = started + 1
    /\ runs' = [runs EXCEPT ![r] =
                  [IdleRun EXCEPT !.trigger = "http", !.body = b,
                                  !.transaction_id = b.transaction_id,
                                  !.hpc = "na", !.epc = "start"]]
    /\ UNCHANGED <<builder, classifier, env, connection_pool, poolsCreated,
                   bim_transaction_events, posts, accepted, succeeded, queue>>

Next ==
    \/ \E m \in MessageBodies, r \in Workers : Deliver(m, r)
    \/ \E b \in RequestBodies, r \in Workers : HttpTrigger(b, r)
    \/ \E r \in Workers : EndpointStart(r)
    \/ \E r \in Workers : initialize_pool(r)
    \/ \E r \in Workers : Guard(r)
    \/ \E r \in Workers : Post(r)
    \/ \E r \in Workers : insert_transaction_event(r)
    \/ \E r \in Workers : HandlerReceive(r)
    \/ \E r \in Workers : HandlerCallFails(r)

Spec == Init /\ [][Next]_vars

(***************************************************************************)
(* classify_error called on its own, with every class of exception, status *)
(* code and text below.                                                    *)
(***************************************************************************)
\* "401 Unauthorized"
TextUnauthorized ==
    <<"4","0","1"," ","U","n","a","u","t","h","o","r","i","z","e","d">>

\* "403 FORBIDDEN"
TextForbidden ==
    <<"4","0","3"," ","F","O","R","B","I","D","D","E","N">>

\* "Authentication required"
TextAuthentication ==
    <<"A","u","t","h","e","n","t","i","c","a","t","i","o","n"," ","r","e","q","u","i","r",
       "e","d">>

\* "Invalid Token supplied"
TextInvalidToken ==
    <<"I","n","v","a","l","i","d"," ","T","o","k","e","n"," ","s","u","p","p","l","i","e",
       "d">>

\* "400 Bad Request"
TextBadRequest ==
    <<"4","0","0"," ","B","a","d"," ","R","e","q","u","e","s","t">>

\* "Invalid data in field amount"
TextInvalidData ==
    <<"I","n","v","a","l","i","d"," ","d","a","t","a"," ","i","n"," ","f","i","e","l","d",
       " ","a","m","o","u","n","t">>

\* "Validation Failed"
TextValidationFailed ==
    <<"V","a","l","i","d","a","t","i","o","n"," ","F","a","i","l","e","d">>

\* "Account Not Found"
TextNotFound ==
    <<"A","c","c","o","u","n","t"," ","N","o","t"," ","F","o","u","n","d">>

\* "Conflict with pending debit"
TextConflict ==
    <<"C","o","n","f","l","i","c","t"," ","w","i","t","h"," ","p","e","n","d","i","n","g",
       " ","d","e","b","i","t">>

\* "Record Already Exists"
TextAlreadyExists ==
    <<"R","e","c","o","r","d"," ","A","l","r","e","a","d","y"," ","E","x","i","s","t","s">>

\* "Token invalid_token rejected"
TextTokenInvalid ==
    <<"T","o","k","e","n"," ","i","n","v","a","l","i","d","_","t","o","k","e","n"," ","r",
       "e","j","e","c","t","e","d">>

\* "Gateway temporarily unavailable"
TextGatewayDown ==
    <<"G","a","t","e","w","a","y"," ","t","e","m","p","o","r","a","r","i","l","y"," ","u",
       "n","a","v","a","i","l","a","b","l","e">>

\* Texts in which a permanent keyword occurs, in some letter case; one for
\* each keyword of the list.
KeywordTexts ==
    {TextUnauthorized, TextForbidden, TextAuthentication, TextInvalidToken, TextBadRequest,
     MsgMalformed, TextInvalidData, TextValidationFailed, TextNotFound, TextConflict,
     TextDuplicate, TextAlreadyExists}

\* Texts in which no permanent keyword occurs, the empty text among them.
KeywordFreeTexts == {<<>>, TextBusy, MsgAlreadySent, TextTokenInvalid, TextGatewayDown}

\* The exception classes classify_error tells apart.
ExceptionKinds == {"timeout", "network", "other"}

\* status_code: None, the two status sets, their borders and statuses of neither set.
StatusCodes ==
    {NoStatus, 200, 400, 401, 402, 403, 404, 405, 409, 422, 429, 499, 500, 503, 599, 600}

ClassifierInputs == ExceptionKinds \X StatusCodes \X (KeywordTexts \cup KeywordFreeTexts)

\* classify_error, evaluated once for each input.
Classification ==
    [x \in ClassifierInputs |-> classify_error(Exc(x[1], x[3]), x[2])] @@ <<>>

\* A variant of the call below whose answer to a repeated call differs from
\* the transient answer it gave before.
Classify_alternating(exception, status_code) ==
    /\ classifier' =
         [exception |-> exception, status_code |-> status_code,
          error_type |-> IF /\ classifier.exception = exception
                            /\ classifier.status_code = status_code
                            /\ classifier.error_type = TRANSIENT
                         THEN PERMANENT
                         ELSE Classification[<<exception.kind, status_code, exception.msg>>],
          previous |-> IF /\ classifier.exception = exception
                          /\ classifier.status_code = status_code
                       THEN classifier.error_type ELSE "none"]
    /\ UNCHANGED <<builder, env, connection_pool, poolsCreated, bim_transaction_events, posts,
                   accepted, succeeded, queue, started, runs>>

\* One call classify_error(exception, status_code): it returns its
\* classification and touches nothing of the function app.
Classify(exception, status_code) ==
    /\ classifier' =
         [exception |-> exception, status_code |-> status_code,
          error_type |-> Classification[<<exception.kind, status_code, exception.msg>>],
          previous |-> IF /\ classifier.exception = exception
                          /\ classifier.status_code = status_code
                       THEN classifier.error_type ELSE "none"]
    /\ UNCHANGED <<builder, env, connection_pool, poolsCreated, bim_transaction_events, posts,
                   accepted, succeeded, queue, started, runs>>

ClassifyNext ==
    \E x \in ClassifierInputs : Classify(Exc(x[1], x[3]), x[2])

\* The function app at rest, correctly configured, its event table empty.
ClassifyInit ==
    /\ Init
    /\ env = "ok"
    /\ bim_transaction_events = <<>>

ClassifySpec == ClassifyInit /\ [][ClassifyNext]_vars

(***************************************************************************)
(* The payload builder on its own: the part of payliance_debit_function    *)
(* between the guard and the post, applied to the records the query can    *)
(* return for a transaction without an event.                              *)
(***************************************************************************)
TransactionIds == {T1, LongId}

Stamps == {None, Datetime("stamp")}

Amounts == {None, Num(25)}

Names == {None, Str(TextDoe)}

HomePhones == {None, Str(<<>>), Str(TextHomePhone)}

MobilePhones == {None, Str(<<>>), Str(TextMobilePhone)}

TransTypes == {None, Str(TextWEB)}

BuilderInputs ==
    TransactionIds \X Stamps \X Amounts \X Names \X HomePhones \X MobilePhones \X TransTypes

\* One build of the payload from a record: it makes the payload or raises,
\* and touches nothing of the function app.
Build(transaction_id, transaction_data) ==
    /\ builder' =
         [built |-> TRUE, transaction_id |-> transaction_id,
          transaction_data |-> transaction_data,
          raised |-> transaction_payload(transaction_id, transaction_data).raised,
          payload |-> transaction_payload(transaction_id, transaction_data).payload]
    /\ UNCHANGED <<classifier, env, connection_pool, poolsCreated, bim_transaction_events,
                   posts, accepted, succeeded, queue, started, runs>>

BuildNext ==
    \E x \in BuilderInputs : Build(x[1], Row(x[1], x[2], x[3], x[4], x[5], x[6], x[7]))

BuildSpec == ClassifyInit /\ [][BuildNext]_vars

(***************************************************************************)
(* Vocabulary of the claims.                                               *)
(***************************************************************************)
\* The dispatch outcome a returned endpoint response stands for.
Outcome(run) ==
    IF run.epc # "done" THEN "None"
    ELSE IF run.resp.success THEN "Success"
    ELSE IF run.resp.error = "already_sent" THEN "AlreadySettled"
    ELSE IF run.resp.error_type = PERMANENT THEN "FailedPermanent"
    ELSE IF run.resp.error_type = TRANSIENT THEN "FailedTransient"
    ELSE "FailedUnclassified"

\* A queue handler run that received the endpoint's response and decided on it.
Received(run) == run.trigger = "queue" /\ run.call = "response"

\* The gateway answered 200 with ValidationCode 1 and an AuthorizationId.
AcceptedWithAuth(gw) ==
    /\ gw.kind = "response"
    /\ gw.status_code = 200
    /\ gw.json
    /\ gw.ValidationCode = 1
    /\ gw.AuthorizationId # NoAuthorizationId

\* The table holds an event of this transaction with this AuthorizationId.
HasEvent(transaction_id, auth) ==
    \E i \in EventsOf(transaction_id) : bim_transaction_events[i].payliance_auth_id = auth

\* Rules 2, 3 and 5 of the classifier for a status whose message has no keyword.
StatusRule(status_code) ==
    IF (500 <= status_code /\ status_code < 600) \/ status_code = 429 THEN TRANSIENT
    ELSE IF status_code \in {400, 401, 403, 404, 405, 409, 422} THEN PERMANENT
    ELSE TRANSIENT

(***************************************************************************)
(* C1. At-most-once settlement: for every transaction id the gateway       *)
(* accepts (200 with ValidationCode 1) at most one submission, and once a  *)
(* dispatch for the id has ended in Success no later dispatch posts to the *)
(* gateway for that id again.                                              *)
(***************************************************************************)
C1_AtMostOnce ==
    /\ [](\A t \in bim_transaction : accepted[t] <= 1)
    /\ [][\A t \in succeeded : posts'[t] = posts[t]]_vars

(***************************************************************************)
(* C2. Idempotent short-circuit: when the record the guard reads carries   *)
(* the settlement marker, the dispatch ends as AlreadySettled, posts       *)
(* nothing to the gateway and inserts no event; and every dispatch whose   *)
(* guard read the marker stays that way.                                   *)
(***************************************************************************)
C2_ShortCircuit ==
    /\ [](\A r \in Workers :
            runs[r].guard = "settled" =>
                /\ Outcome(runs[r]) = "AlreadySettled"
                /\ runs[r].gw = NoGw
                /\ runs[r].insert = "none")
    /\ [][\A r \in Workers :
            ( /\ runs[r].epc = "get_transaction_by_id"
              /\ runs'[r].epc # "get_transaction_by_id"
              /\ EventsOf(runs[r].transaction_id) # {}
              /\ runs'[r].guard # "norecord" ) =>
                /\ Outcome(runs'[r]) = "AlreadySettled"
                /\ posts' = posts
                /\ bim_transaction_events' = bim_transaction_events]_vars

\* Both workers dispatched the same settled transaction and both short-circuited.
C2_Witness ==
    \E t \in bim_transaction :
        \A r \in Workers :
            /\ runs[r].transaction_id = t
            /\ runs[r].guard = "settled"
            /\ Outcome(runs[r]) = "AlreadySettled"

(***************************************************************************)
(* C3. On the queue path a message whose dispatch outcome is               *)
(* AlreadySettled is acknowledged: the handler returns normally when the   *)
(* endpoint reports that the transaction was already sent.                 *)
(***************************************************************************)
C3_AlreadySettledAcked ==
    \A r \in Workers :
        (Received(runs[r]) /\ Outcome(runs[r]) = "AlreadySettled") => runs[r].hpc = "acked"

(***************************************************************************)
(* C4. A gateway response 200 whose ValidationCode is not 1, or which has  *)
(* no AuthorizationId, ends the dispatch as Failed(Permanent): it never    *)
(* reports Success, and no event is inserted.                              *)
(***************************************************************************)
C4_RejectionIsPermanentFailure ==
    \A r \in Workers :
        ( /\ runs[r].epc = "done"
          /\ runs[r].gw.kind = "response"
          /\ runs[r].gw.status_code = 200
          /\ (runs[r].gw.ValidationCode # 1 \/ runs[r].gw.AuthorizationId = NoAuthorizationId) ) =>
            /\ Outcome(runs[r]) = "FailedPermanent"
            /\ runs[r].insert = "none"

(***************************************************************************)
(* C5 as claimed. A response 200 with ValidationCode 1 and an              *)
(* AuthorizationId leads to an event of that transaction with that         *)
(* AuthorizationId in the table, then to Success, and on the queue path to *)
(* the message being acknowledged.                                         *)
(***************************************************************************)
C5_AcceptedIsPersisted ==
    \A r \in Workers :
        (AcceptedWithAuth(runs[r].gw) /\ runs[r].epc = "done") =>
            /\ HasEvent(runs[r].transaction_id, runs[r].gw.AuthorizationId)
            /\ Outcome(runs[r]) = "Success"
            /\ Received(runs[r]) => runs[r].hpc = "acked"

(***************************************************************************)
(* C5 as amended. A response 200 with ValidationCode 1 and an              *)
(* AuthorizationId leads to one insert attempt for that transaction and    *)
(* AuthorizationId before the dispatch returns; when the insert succeeds   *)
(* exactly that event is appended, when it fails nothing is; either way the*)
(* dispatch then ends with Success, and a queue handler that receives the  *)
(* response acknowledges the message.                                      *)
(***************************************************************************)
C5_AcceptedIsPersistedIfStored ==
    /\ [](\A r \in Workers :
            AcceptedWithAuth(runs[r].gw) =>
                /\ runs[r].epc \in {"insert_transaction_event", "done"}
                /\ runs[r].epc = "insert_transaction_event" =>
                        (runs[r].resp = NoResp /\ runs[r].insert = "none")
                /\ runs[r].epc = "done" =>
                        (runs[r].insert \in {"true", "false"} /\ Outcome(runs[r]) = "Success")
                /\ runs[r].insert = "true" =>
                        HasEvent(runs[r].transaction_id, runs[r].gw.AuthorizationId)
                /\ Received(runs[r]) => runs[r].hpc = "acked")
    /\ [][\A r \in Workers :
            (runs[r].epc = "insert_transaction_event" /\ runs'[r].epc = "done") =>
                IF runs'[r].insert = "true"
                THEN bim_transaction_events' =
                        Append(bim_transaction_events,
                               Event(runs[r].transaction_id, runs[r].gw.AuthorizationId))
                ELSE bim_transaction_events' = bim_transaction_events]_vars

\* A queue delivery whose settlement was accepted, stored and acknowledged.
C5_Witness ==
    \E r \in Workers :
        /\ AcceptedWithAuth(runs[r].gw)
        /\ runs[r].insert = "true"
        /\ Received(runs[r])
        /\ runs[r].hpc = "acked"

(***************************************************************************)
(* C6. Dispatch-to-policy composition on the queue path: the handler       *)
(* acknowledges iff the outcome is AlreadySettled, Success or              *)
(* Failed(Permanent), and raises iff the outcome is Failed(Transient).     *)
(***************************************************************************)
C6_PolicyComposition ==
    \A r \in Workers :
        ( /\ Received(runs[r])
          /\ Outcome(runs[r]) \in {"AlreadySettled", "Success", "FailedPermanent",
                                   "FailedTransient"} ) =>
            /\ runs[r].hpc = "acked" <=>
                    Outcome(runs[r]) \in {"AlreadySettled", "Success", "FailedPermanent"}
            /\ runs[r].hpc = "raised" <=> Outcome(runs[r]) = "FailedTransient"

(***************************************************************************)
(* C7. Malformed queue input is absorbed: a body that is not JSON, not     *)
(* decodable, not a JSON object, or an object without a transaction_id is  *)
(* acknowledged, and the endpoint is never called for it.                  *)
(***************************************************************************)
C7_MalformedAbsorbed ==
    \A r \in Workers :
        ( /\ runs[r].trigger = "queue"
          /\ (runs[r].body.kind # "object" \/ runs[r].body.transaction_id = NoId) ) =>
            /\ runs[r].hpc = "acked"
            /\ runs[r].epc = "idle"
            /\ runs[r].call = "none"

(***************************************************************************)
(* C8. In every reachable state at most one event exists per transaction   *)
(* id, and an event once inserted is never changed or deleted.             *)
(***************************************************************************)
C8_OneEventPerTransaction ==
    /\ [](\A t \in bim_transaction : Cardinality(EventsOf(t)) <= 1)
    /\ [][/\ Len(bim_transaction_events') >= Len(bim_transaction_events)
          /\ SubSeq(bim_transaction_events', 1, Len(bim_transaction_events))
                = bim_transaction_events]_vars

(***************************************************************************)
(* C9. A gateway response with a status other than 200 ends the dispatch   *)
(* as Failed with the classification the classifier's status rules give;   *)
(* for 401 that is Failed(Permanent), a queue handler that receives the    *)
(* response acknowledges, and no event is inserted.                        *)
(***************************************************************************)
C9_NonOkStatus ==
    \A r \in Workers :
        ( /\ runs[r].gw.kind = "response"
          /\ runs[r].gw.status_code # 200 ) =>
            /\ runs[r].epc = "done"
            /\ ~runs[r].resp.success
            /\ runs[r].resp.error_type = StatusRule(runs[r].gw.status_code)
            /\ runs[r].insert = "none"
            /\ runs[r].gw.status_code = 401 =>
                    /\ Outcome(runs[r]) = "FailedPermanent"
                    /\ Received(runs[r]) => runs[r].hpc = "acked"

\* A queue delivery the gateway answered with 401, acknowledged.
C9_Witness ==
    \E r \in Workers :
        /\ runs[r].gw.status_code = 401
        /\ Received(runs[r])
        /\ runs[r].hpc = "acked"

(***************************************************************************)
(* C10. When the gateway call times out or fails at the connection level,  *)
(* the dispatch ends as Failed(Transient), a queue handler that receives   *)
(* the response raises, and neither an event nor any other storage state   *)
(* is written.                                                             *)
(***************************************************************************)
C10_TransportFailure ==
    /\ [](\A r \in Workers :
            runs[r].gw.kind \in {"timeout", "network"} =>
                /\ Outcome(runs[r]) = "FailedTransient"
                /\ runs[r].insert = "none"
                /\ Received(runs[r]) => runs[r].hpc = "raised")
    /\ [][\A r \in Workers :
            (runs[r].epc = "post" /\ runs'[r].gw.kind \in {"timeout", "network"}) =>
                /\ bim_transaction_events' = bim_transaction_events
                /\ connection_pool' = connection_pool]_vars

\* A queue delivery whose gateway call timed out, raised for redelivery.
C10_Witness ==
    \E r \in Workers :
        /\ runs[r].gw.kind = "timeout"
        /\ Received(runs[r])
        /\ runs[r].hpc = "raised"

(***************************************************************************)
(* C11. Every event written to the table is written by a dispatch that had *)
(* already received, for the same transaction id, a gateway response 200   *)
(* with ValidationCode 1 and an AuthorizationId, and carries that          *)
(* AuthorizationId; no dispatch reaches the insert without such a response.*)
(***************************************************************************)
C11_EventOnlyAfterAcceptance ==
    /\ [](\A r \in Workers :
            (runs[r].epc = "insert_transaction_event" \/ runs[r].insert # "none") =>
                AcceptedWithAuth(runs[r].gw))
    /\ [][bim_transaction_events' # bim_transaction_events =>
            \E r \in Workers :
                /\ runs[r].epc = "insert_transaction_event"
                /\ AcceptedWithAuth(runs[r].gw)
                /\ bim_transaction_events' =
                        Append(bim_transaction_events,
                               Event(runs[r].transaction_id, runs[r].gw.AuthorizationId))]_vars

\* A direct call whose accepted settlement was written to a table that was empty.
C11_Witness ==
    \E r \in Workers :
        /\ runs[r].trigger = "http"
        /\ runs[r].insert = "true"
        /\ bim_transaction_events =
                <<Event(runs[r].transaction_id, runs[r].gw.AuthorizationId)>>

(***************************************************************************)
(* C12. When the gateway accepted the settlement but the insert of the     *)
(* event fails, the dispatch still answers 200 with success, and a queue   *)
(* handler that receives the answer acknowledges the message.              *)
(***************************************************************************)
C12_PersistenceFailureKeepsSuccess ==
    \A r \in Workers :
        runs[r].insert = "false" =>
            /\ AcceptedWithAuth(runs[r].gw)
            /\ Outcome(runs[r]) = "Success"
            /\ runs[r].resp.status_code = 200
            /\ Received(runs[r]) => runs[r].hpc = "acked"

\* A queue delivery acknowledged although the accepted settlement left no event.
C12_Witness ==
    \E r \in Workers :
        /\ runs[r].insert = "false"
        /\ Received(runs[r])
        /\ runs[r].hpc = "acked"
        /\ EventsOf(runs[r].transaction_id) = {}

\* How far an invocation of the endpoint has come.
EndpointRank(epc) ==
    CASE epc = "idle" -> 0
      [] epc = "start" -> 1
      [] epc = "initialize_pool" -> 2
      [] epc = "get_transaction_by_id" -> 3
      [] epc = "post" -> 4
      [] epc = "insert_transaction_event" -> 5
      [] epc \in {"done", "crashed", "unreached"} -> 6

\* Worker r goes on with the trigger it is handling.
SameTrigger(r) ==
    /\ started' = started
    /\ runs'[r].trigger = runs[r].trigger
    /\ runs'[r].body = runs[r].body
    /\ runs'[r].transaction_id = runs[r].transaction_id

Classified == classifier.error_type # "none"

\* The status is one of rule 2: in [500,600) or 429.
TransientStatus(status_code) ==
    (500 <= status_code /\ status_code < 600) \/ status_code = 429

\* The status is one of rule 3.
PermanentStatus(status_code) == status_code \in {400, 401, 403, 404, 405, 409, 422}

(***************************************************************************)
(* C14. Rule order, first match wins: a timeout or network failure is      *)
(* classified transient whatever status and text come with it; otherwise a *)
(* status in [500,600) or 429 is transient and a status in                 *)
(* {400,401,403,404,405,409,422} is permanent whatever the text contains.  *)
(***************************************************************************)
C14_RuleOrder ==
    Classified =>
        /\ classifier.exception.kind \in {"timeout", "network"} =>
                classifier.error_type = TRANSIENT
        /\ ( /\ classifier.exception.kind = "other"
             /\ TransientStatus(classifier.status_code) ) =>
                classifier.error_type = TRANSIENT
        /\ ( /\ classifier.exception.kind = "other"
             /\ PermanentStatus(classifier.status_code) ) =>
                classifier.error_type = PERMANENT

\* A timeout that comes with status 401 and a keyword text, classified transient.
C14_Witness ==
    /\ classifier.exception.kind = "timeout"
    /\ classifier.status_code = 401
    /\ classifier.exception.msg \in KeywordTexts
    /\ classifier.error_type = TRANSIENT

(***************************************************************************)
(* C15. For every status in [500,600) and for 429, with an exception that  *)
(* is neither a timeout nor a network failure, classify_error returns      *)
(* transient.                                                              *)
(***************************************************************************)
C15_TransientStatus ==
    ( /\ Classified
      /\ classifier.exception.kind = "other"
      /\ TransientStatus(classifier.status_code) ) =>
        classifier.error_type = TRANSIENT

\* Status 429 with a keyword text, classified transient.
C15_Witness ==
    /\ classifier.exception.kind = "other"
    /\ classifier.status_code = 429
    /\ classifier.exception.msg = TextDuplicate
    /\ classifier.error_type = TRANSIENT

(***************************************************************************)
(* C16. For every status in {400,401,403,404,405,409,422}, with an         *)
(* exception that is neither a timeout nor a network failure,              *)
(* classify_error returns permanent.                                       *)
(***************************************************************************)
C16_PermanentStatus ==
    \A status_code \in {400, 401, 403, 404, 405, 409, 422} :
        ( /\ Classified
          /\ classifier.exception.kind = "other"
          /\ classifier.status_code = status_code ) =>
            classifier.error_type = PERMANENT

\* Status 422 with a text that has no keyword, classified permanent.
C16_Witness ==
    /\ classifier.exception.kind = "other"
    /\ classifier.status_code = 422
    /\ classifier.exception.msg = TextBusy
    /\ classifier.error_type = PERMANENT

(***************************************************************************)
(* C17. When the exception is neither a timeout nor a network failure and  *)
(* the status is absent or in neither status set, classify_error returns   *)
(* permanent if the text contains a permanent keyword in any letter case,  *)
(* and transient otherwise.                                                *)
(***************************************************************************)
C17_KeywordsThenDefault ==
    ( /\ Classified
      /\ classifier.exception.kind = "other"
      /\ ~TransientStatus(classifier.status_code)
      /\ ~PermanentStatus(classifier.status_code) ) =>
        /\ classifier.exception.msg \in KeywordTexts => classifier.error_type = PERMANENT
        /\ classifier.exception.msg \in KeywordFreeTexts => classifier.error_type = TRANSIENT

\* No status and a text with the keyword in capitals, classified permanent.
C17_Witness ==
    /\ classifier.exception.kind = "other"
    /\ classifier.status_code = NoStatus
    /\ classifier.exception.msg = TextForbidden
    /\ classifier.error_type = PERMANENT

C19_StatusMapping ==
    \A r \in Workers :
        (runs[r].epc = "done" /\ ~runs[r].resp.success) =>
            /\ runs[r].resp.error_type = PERMANENT =>
                    (400 <= runs[r].resp.status_code /\ runs[r].resp.status_code < 500)
            /\ runs[r].resp.error_type = TRANSIENT =>
                    \/ 500 <= runs[r].resp.status_code /\ runs[r].resp.status_code < 600
                    \/ runs[r].resp.status_code = 408

(***************************************************************************)
(* C20. The endpoint never lets an exception escape: for every request,    *)
(* a body that is not valid JSON included, the invocation ends with a      *)
(* response the endpoint built itself.                                     *)
(***************************************************************************)
C20_NoEscape ==
    \A r \in Workers :
        /\ runs[r].epc # "crashed"
        /\ runs[r].resp # HostError

(***************************************************************************)
(* The payload and the guard.                                              *)
(***************************************************************************)
\* The run has posted, or is about to post, its payload to the gateway.
Submitting(run) == run.epc = "post" \/ run.gw # NoGw

\* C21: every payload posted to the gateway carries as uniqueTranId the
\* transaction id of the trigger that caused the dispatch, which is the id
\* the guard looked the record up by and found it unsettled.
C21_UniqueTranId ==
    \A r \in Workers :
        Submitting(runs[r]) =>
            /\ runs[r].uniqueTranId = runs[r].body.transaction_id
            /\ runs[r].uniqueTranId = runs[r].transaction_id
            /\ runs[r].guard = "unsettled"

\* Both workers have posted, one for each transaction.
C21_Witness ==
    /\ runs[1].gw # NoGw /\ runs[1].uniqueTranId = T1
    /\ runs[2].gw # NoGw /\ runs[2].uniqueTranId = T2

\* Every optional column of the record is missing.
EveryOptionalMissing(transaction_data) ==
    \A column \in Columns \ {"serial_number"} :
        Get(transaction_data, column, None) = None

\* C22: building the payload is total: from a record whose optional fields
\* are all missing it raises nothing and yields every documented default:
\* secCode "POS", accountType "Personal Checking", amount 0, the boolean
\* flags false, the texts empty.
C22_TotalWithDefaults ==
    (builder.built /\ EveryOptionalMissing(builder.transaction_data)) =>
        /\ builder.raised = "none"
        /\ builder.payload.secCode = Str(TextPOS)
        /\ builder.payload.accountType = Str(TextPersonalChecking)
        /\ builder.payload.checkAmount = Num(0)
        /\ builder.payload.isSameDay = Bool(FALSE)
        /\ builder.payload.microEntry = Bool(FALSE)
        /\ builder.payload.convenienceFee = Bool(FALSE)
        /\ builder.payload.lastName = Str(<<>>)
        /\ builder.payload.phone = Str(<<>>)

\* The value is a text that is not empty.
NonEmpty(value) == value.tag = "str" /\ value.v # <<>>

\* C23: the phone of the payload is the home phone when that is present and
\* not empty, else the mobile phone when that is present and not empty, else
\* the empty text, whichever of the two are empty or missing.
C23_PhonePreference ==
    (builder.built /\ builder.raised = "none") =>
        builder.payload.phone =
            IF NonEmpty(builder.transaction_data["home_phone"])
            THEN builder.transaction_data["home_phone"]
            ELSE IF NonEmpty(builder.transaction_data["mobile_phone"])
                 THEN builder.transaction_data["mobile_phone"]
                 ELSE Str(<<>>)

\* C24: the posTransactionSerialNumber of the payload is the last 6
\* characters of the transaction id (the whole id when it is shorter).
C24_SerialNumber ==
    (builder.built /\ builder.raised = "none") =>
        /\ builder.payload.posTransactionSerialNumber.tag = "str"
        /\ Len(builder.payload.posTransactionSerialNumber.v) =
              IF Len(builder.transaction_id) < 6 THEN Len(builder.transaction_id) ELSE 6
        /\ \A i \in 1..Len(builder.payload.posTransactionSerialNumber.v) :
              builder.payload.posTransactionSerialNumber.v[i] =
                  builder.transaction_id[
                      Len(builder.transaction_id)
                      - Len(builder.payload.posTransactionSerialNumber.v) + i]

\* A payload built for "TX20240001" carries the serial number "240001".
C24_Witness ==
    /\ builder.built
    /\ builder.raised = "none"
    /\ builder.transaction_id = LongId
    /\ builder.payload.posTransactionSerialNumber = Str(<<"2","4","0","0","0","1">>)

(***************************************************************************)
(* C25. Guard before gateway: a run submits only after its one read of the *)
(* record, made while handling the same trigger, returned the record       *)
(* without a settlement marker; each gateway call is made by the step in   *)
(* which that read returns, when the table holds no event of the id.  So a *)
(* read made after an event of the id was written leads to no gateway      *)
(* call, and two runs for one id both submit only if both reads came       *)
(* before both writes.                                                     *)
(***************************************************************************)
C25_GuardBeforeGateway ==
    /\ [](\A r \in Workers : Submitting(runs[r]) => runs[r].guard = "unsettled")
    /\ [][\A t \in bim_transaction :
            posts'[t] # posts[t] =>
                /\ posts'[t] = posts[t] + 1
                /\ EventsOf(t) = {}
                /\ \E r \in Workers :
                      /\ SameTrigger(r)
                      /\ runs[r].transaction_id = t
                      /\ runs[r].epc = "get_transaction_by_id"
                      /\ runs[r].guard = "none"
                      /\ runs'[r].guard = "unsettled"
                      /\ runs'[r].epc = "post"]_vars
    /\ [][\A r \in Workers :
            (SameTrigger(r) /\ runs[r].guard # "none") =>
                runs'[r].guard = runs[r].guard]_vars
    /\ [][\A r \in Workers :
            (/\ runs[r].epc = "get_transaction_by_id"
             /\ runs'[r].epc # "get_transaction_by_id"
             /\ EventsOf(runs[r].transaction_id) # {}) =>
                (~Submitting(runs'[r]) /\ UNCHANGED posts)]_vars

\* Worker 1 wrote the event of T1, and worker 2, reading the record of T1
\* afterwards, found the marker and made no gateway call.
C25_Witness ==
    /\ runs[1].transaction_id = T1
    /\ runs[1].insert = "true"
    /\ runs[2].transaction_id = T1
    /\ runs[2].guard = "settled"
    /\ runs[2].gw = NoGw
    /\ posts[T1] = 1

(***************************************************************************)
(* C26. Independence across transaction ids: each step is the step of one  *)
(* worker and leaves the other worker's run as it was; and whenever the    *)
(* events, the settled status, the gateway calls or the reported success   *)
(* of a transaction id change, the step is one of a run handling that id.  *)
(***************************************************************************)
C26_Independence ==
    /\ [][\A r, q \in Workers :
            (r # q /\ runs'[r] # runs[r]) => runs'[q] = runs[q]]_vars
    /\ [][\A t \in bim_transaction :
            (\/ EventsOf(t)' # EventsOf(t)
             \/ get_transaction_by_id(t)' # get_transaction_by_id(t)
             \/ posts'[t] # posts[t]
             \/ accepted'[t] # accepted[t]
             \/ (t \in succeeded') # (t \in succeeded)) =>
                \E r \in Workers :
                    /\ SameTrigger(r)
                    /\ runs[r].transaction_id = t
                    /\ runs'[r] # runs[r]]_vars

\* Two runs for different transactions have each written their event.
C26_Witness ==
    /\ runs[1].transaction_id = T1 /\ runs[1].insert = "true"
    /\ runs[2].transaction_id = T2 /\ runs[2].insert = "true"
    /\ EventsOf(T1) # {}
    /\ EventsOf(T2) # {}

(***************************************************************************)
(* C27. A message delivered for a transaction that is settled already is   *)
(* acknowledged: when the handler receives the endpoint's answer of a      *)
(* dispatch whose guard found the settlement marker, it acknowledges the   *)
(* message, so that the message is not redelivered again and again.        *)
(***************************************************************************)
C27_SettledMessageAcknowledged ==
    [][\A r \in Workers :
         (/\ SameTrigger(r)
          /\ runs[r].trigger = "queue"
          /\ runs[r].guard = "settled"
          /\ runs[r].call = "none"
          /\ runs'[r].call = "response") =>
             /\ runs'[r].hpc = "acked"
             /\ queue'[runs[r].body] = "acked"]_vars

(***************************************************************************)
(* C28. When the record cannot be obtained (the lookup returns no record,  *)
(* or there is no connection pool to look it up with) the endpoint answers *)
(* 500 with error_type transient, having made no gateway call and written  *)
(* no event, and a handler that receives the answer raises, so that the    *)
(* message is redelivered.                                                 *)
(***************************************************************************)
C28_RecordUnobtainable ==
    /\ [](\A r \in Workers :
            (runs[r].guard = "norecord"
             \/ (runs[r].epc = "done" /\ runs[r].gw = NoGw /\ runs[r].resp.error = "unexpected")) =>
                /\ runs[r].epc = "done"
                /\ runs[r].resp = Resp(500, FALSE, TRANSIENT, "unexpected")
                /\ runs[r].gw = NoGw
                /\ runs[r].uniqueTranId = NoId
                /\ runs[r].insert = "none"
                /\ Received(runs[r]) => runs[r].hpc = "raised")
    /\ [][\A r \in Workers :
            (/\ SameTrigger(r)
             /\ runs[r].epc \in {"start", "initialize_pool"}
             /\ runs'[r].epc \notin {runs[r].epc, "initialize_pool", "unreached"}
             /\ connection_pool' = NoPool
             /\ env = "ok"
             /\ RequestBody(runs[r]).kind = "object"
             /\ RequestBody(runs[r]).transaction_id # NoId) =>
                /\ runs'[r].epc = "done"
                /\ runs'[r].guard = "none"
                /\ runs'[r].resp = Resp(500, FALSE, TRANSIENT, "unexpected")
                /\ UNCHANGED <<posts, bim_transaction_events>>]_vars
    /\ [][\A r \in Workers :
            (runs[r].guard # "norecord" /\ runs'[r].guard = "norecord") =>
                UNCHANGED <<posts, accepted, bim_transaction_events>>]_vars

\* A handler received the 500 of a dispatch whose lookup returned no record,
\* and raised; another dispatch found no connection pool.
C28_Witness ==
    \E r, q \in Workers :
        /\ runs[r].trigger = "queue"
        /\ runs[r].guard = "norecord"
        /\ Received(runs[r])
        /\ runs[r].hpc = "raised"
        /\ runs[q].epc = "done"
        /\ runs[q].guard = "none"
        /\ runs[q].resp = Resp(500, FALSE, TRANSIENT, "unexpected")

(***************************************************************************)
(* C29. Classification agreement: for every failure response of the        *)
(* endpoint that carries an error_type, the classification the queue       *)
(* handler derives from the response is that error_type, and the handler   *)
(* acknowledges the message exactly when the endpoint reported a permanent *)
(* failure.                                                                *)
(***************************************************************************)
C29_ClassificationAgreement ==
    \A r \in Workers :
        (/\ Received(runs[r])
         /\ runs[r].epc = "done"
         /\ ~runs[r].resp.success
         /\ runs[r].resp.error_type \in {TRANSIENT, PERMANENT}) =>
            /\ call_debit_endpoint_response(runs[r]).error_type = runs[r].resp.error_type
            /\ (runs[r].hpc = "acked") <=> (runs[r].resp.error_type = PERMANENT)

\* The body of a direct request is empty or carries no transaction id.
WithoutTransactionId(run) ==
    /\ run.trigger = "http"
    /\ \/ run.body.kind = "empty"
       \/ run.body.kind = "object" /\ run.body.transaction_id = NoId

(***************************************************************************)
(* C30. A direct request whose JSON body is empty, or is an object with no *)
(* transaction_id or an empty one, is answered 400 with success false; the *)
(* endpoint looks up no record, calls no gateway and writes no event.      *)
(***************************************************************************)
C30_MissingIdRejected ==
    /\ [](\A r \in Workers :
            WithoutTransactionId(runs[r]) =>
                /\ runs[r].epc \in {"start", "initialize_pool", "done"}
                /\ runs[r].guard = "none"
                /\ runs[r].gw = NoGw
                /\ runs[r].uniqueTranId = NoId
                /\ runs[r].insert = "none"
                /\ runs[r].epc = "done" =>
                      /\ runs[r].resp.status_code = 400
                      /\ ~runs[r].resp.success)
    /\ [][\A r \in Workers :
            (WithoutTransactionId(runs[r]) /\ runs'[r] # runs[r] /\ SameTrigger(r)) =>
                UNCHANGED <<posts, accepted, succeeded, bim_transaction_events>>]_vars

\* One request with an empty body and one with an empty transaction_id have
\* both been answered 400.
C30_Witness ==
    /\ runs[1].trigger = "http" /\ runs[1].body.kind = "empty"
    /\ runs[1].epc = "done" /\ runs[1].resp.status_code = 400
    /\ runs[2].trigger = "http" /\ runs[2].body = Body("object", NoId)
    /\ runs[2].epc = "done" /\ runs[2].resp.status_code = 400

(***************************************************************************)
(* C31. Whatever the interleaving of the invocations that start while      *)
(* db.connection_pool is None, at most one connection pool is created, and *)
(* the handle every invocation then uses holds that one pool.              *)
(***************************************************************************)
C31_OnePool ==
    /\ poolsCreated <= 1
    /\ connection_pool \in {NoPool, 1}

====
